---- MODULE Spec2Model ----
(***************************************************************************)
(* Subscription reconciliation of the Learner Genie Netlify functions:     *)
(* the payment webhook in its three revisions (Paystack with HMAC check,   *)
(* Paystack without signature check, Ozow placeholder) and the cancel      *)
(* endpoint, acting on the rows of the `accounts` table.                   *)
(*                                                                         *)
(* Conventions.  A JavaScript `undefined` string value is NoVal, a missing *)
(* number is 0 and a missing plan code is the empty sequence: each is      *)
(* falsy exactly like the value it stands for.  SQL NULL is Null.  Plan    *)
(* codes are sequences of characters so that String.prototype.trim is      *)
(* modelled by what it does.                                               *)
(***************************************************************************)
EXTENDS Integers, Sequences, FiniteSets, TLC

VARIABLES rev, env, accounts, op, req, before, resp, upd, deliveries, prevStatus,
          procs, resolved, cancelled

vars == <<rev, env, accounts, op, req, before, resp, upd, deliveries, prevStatus,
          procs, resolved, cancelled>>

----------------------------------------------------------------------------
(* Values *)

NoVal == "undefined"
Null == "null"

\* bound: how many times the provider delivers one event (1 = no retry)
MaxDeliveries == 2

\* bound: how many invocations of the webhook function run at the same time
MaxConcurrent == 2

Users == {"u1", "u2"}

Tiers == {"free", "paid_single", "paid_family", "paid_ultra"}

PaidTiers == Tiers \ {"free"}

\* spec.md section 3: the fixed table tier -> profile_limit
TierLimit(t) ==
    CASE t = "paid_single" -> 1
      [] t = "paid_family" -> 2
      [] t = "paid_ultra" -> 4
      [] OTHER -> 1

FreeRow ==
    [active_tier |-> "free", subscription_id |-> Null,
     subscription_status |-> "cancelled", profile_limit |-> 1]

PaidRow ==
    [active_tier |-> "paid_family", subscription_id |-> "SUB_0",
     subscription_status |-> "active", profile_limit |-> 2]

Columns == DOMAIN FreeRow

----------------------------------------------------------------------------
(* Strings with whitespace *)

RECURSIVE TrimLeft(_)
TrimLeft(s) ==
    IF s # <<>> /\ Head(s) = " " THEN TrimLeft(Tail(s)) ELSE s

RECURSIVE TrimRight(_)
TrimRight(s) ==
    IF s # <<>> /\ s[Len(s)] = " " THEN TrimRight(SubSeq(s, 1, Len(s) - 1)) ELSE s

Trim(s) == TrimRight(TrimLeft(s))

----------------------------------------------------------------------------
(* Environment *)

SingleCode == <<"S">>
FamilyCode == <<"F">>
UltraCode == <<"U">>
UnknownCode == <<"X">>

FullEnv ==
    [PAYSTACK_SECRET_KEY |-> "sk_live",
     OZOW_PRIVATE_KEY |-> "sk_live",
     SUPABASE |-> TRUE,
     PAYSTACK_PLAN_SINGLE_CODE |-> SingleCode,
     PAYSTACK_PLAN_FAMILY_CODE |-> FamilyCode,
     PAYSTACK_PLAN_ULTRA_CODE |-> UltraCode]

Envs ==
    { FullEnv,
      [FullEnv EXCEPT !.PAYSTACK_SECRET_KEY = NoVal],
      [FullEnv EXCEPT !.SUPABASE = FALSE],
      [FullEnv EXCEPT !.PAYSTACK_PLAN_FAMILY_CODE = <<>>] }

----------------------------------------------------------------------------
(* The account store: update(...).eq('id', key) *)

NoPatch == [c \in {} |-> NoVal]

NoUpdate == [issued |-> FALSE, key |-> NoVal, patch |-> NoPatch, failed |-> FALSE]

\* the request body of the update is JSON: a key whose value is undefined is
\* not sent, and the column keeps its value
DropUndefined(patch) ==
    IF "subscription_id" \in DOMAIN patch /\ patch.subscription_id = NoVal
    THEN [c \in DOMAIN patch \ {"subscription_id"} |-> patch[c]]
    ELSE patch

Update(key, patch, ok) ==
    [issued |-> TRUE, key |-> key, patch |-> DropUndefined(patch), failed |-> ~ok]

\* a store that adds the purchased limit to the stored one
ApplyPatchAdding(row, patch) ==
    [c \in Columns |->
        IF c \notin DOMAIN patch THEN row[c]
        ELSE IF c = "profile_limit" /\ patch.subscription_status = "active"
                  /\ row[c] + patch[c] <= 8
        THEN row[c] + patch[c]
        ELSE patch[c]]

ApplyPatch(row, patch) ==
    [c \in Columns |-> IF c \in DOMAIN patch THEN patch[c] ELSE row[c]]

\* the update run as an upsert: a missing row is inserted
ApplyUpsert(acc, u) ==
    IF u.issued /\ ~u.failed
    THEN [id \in DOMAIN acc \cup {u.key} |->
             IF id # u.key THEN acc[id]
             ELSE IF id \in DOMAIN acc THEN ApplyPatch(acc[id], u.patch)
             ELSE ApplyPatch(FreeRow, u.patch)]
    ELSE acc

ApplyUpdate(acc, u) ==
    IF u.issued /\ ~u.failed
    THEN [id \in DOMAIN acc |-> IF id = u.key THEN ApplyPatch(acc[id], u.patch) ELSE acc[id]]
    ELSE acc

----------------------------------------------------------------------------
(* Webhook requests *)

\* the hex digest of HMAC-SHA512: one value per (key, message)
Hmac(key, msg) == [key |-> key, msg |-> msg]

NoCustomer == "no_customer"

SuccessEvents == {"charge.success", "subscription.create"}

Body(e, mu, cf, l, p, s, i, c) ==
    [raw |-> "compact", valid |-> TRUE, event |-> e, hasData |-> TRUE, metaUid |-> mu, cfUid |-> cf,
     limit |-> l, plan |-> p, sub |-> s, id |-> i, customer |-> c,
     reference |-> <<>>, status |-> NoVal]

PlanCodes == {<<>>, SingleCode, FamilyCode, UltraCode, UnknownCode}

Limits == {0, 1, 2, 4}

SubIds == {<<"SUB_1", "TRX_1">>, <<NoVal, "TRX_1">>, <<NoVal, NoVal>>}

UidFields == {<<"u1", NoVal>>, <<NoVal, NoVal>>, <<NoVal, "u1">>, <<"u9", NoVal>>}

PlanGrid ==
    { Body("charge.success", "u1", NoVal, l, p, si[1], si[2], "CUS_1") :
        l \in Limits, p \in PlanCodes, si \in SubIds }

CreateGrid ==
    { Body("subscription.create", "u1", NoVal, l, p, "SUB_1", "TRX_1", "CUS_1") :
        l \in Limits, p \in PlanCodes }

UidGrid ==
    { Body(e, uf[1], uf[2], l, p, "SUB_1", "TRX_1", "CUS_1") :
        e \in SuccessEvents, uf \in UidFields, l \in {0, 4}, p \in {SingleCode, UnknownCode} }

CancelGrid ==
    { Body(e, mu, NoVal, 0, <<>>, "SUB_1", NoVal, c) :
        e \in {"subscription.disable", "subscription.expire", "subscription.not_renew"},
        mu \in {"u1", NoVal, "u9"}, c \in {NoCustomer, NoVal, "CUS_1"} }

OtherBodies ==
    { Body("invoice.update", "u1", NoVal, 2, FamilyCode, "SUB_1", "TRX_1", "CUS_1") }

NoDataBodies ==
    { [Body(e, NoVal, NoVal, 0, <<>>, NoVal, NoVal, NoCustomer) EXCEPT !.hasData = FALSE] :
        e \in {"charge.success", "subscription.disable", "invoice.update"} }

InvalidJson ==
    [Body(NoVal, NoVal, NoVal, 0, <<>>, NoVal, NoVal, NoCustomer) EXCEPT !.valid = FALSE]

\* the same payloads sent with other whitespace between the JSON tokens
SpacedBodies ==
    { [b EXCEPT !.raw = "spaced"] :
        b \in { Body("charge.success", "u1", NoVal, 2, FamilyCode, "SUB_1", "TRX_1", "CUS_1"),
                Body("subscription.disable", "u1", NoVal, 0, <<>>, "SUB_1", NoVal, "CUS_1"),
                Body("invoice.update", "u1", NoVal, 2, FamilyCode, "SUB_1", "TRX_1", "CUS_1") } }

PaystackBodies ==
    PlanGrid \cup CreateGrid \cup UidGrid \cup CancelGrid \cup OtherBodies
        \cup NoDataBodies \cup {InvalidJson} \cup SpacedBodies

\* JSON.stringify(JSON.parse(body)): the payload in compact form
Reserialize(b) == [b EXCEPT !.raw = "compact"]

\* the x-paystack-signature header: absent, or a digest under some key
NoSignature == [present |-> FALSE, hex |-> Hmac(NoVal, InvalidJson)]

SigningKeys == {"sk_live", "sk_forged"}

\* a digest of the raw body, or of the re-serialized payload
Signatures(b) ==
    {NoSignature} \cup { [present |-> TRUE, hex |-> Hmac(k, m)] :
                            k \in SigningKeys, m \in {b, Reserialize(b)} }

Posts(bodies) ==
    UNION { { [method |-> "POST", sig |-> s, body |-> b] : s \in Signatures(b) } : b \in bodies }

GetRequest == [method |-> "GET", sig |-> NoSignature, body |-> InvalidJson]

PaystackRequests == Posts(PaystackBodies) \cup {GetRequest}

\* Ozow notifications: transactionReference is kept as the list of its
\* '_'-separated parts, status in lower case
OzowBody(ref, st) ==
    [Body(NoVal, NoVal, NoVal, 0, <<>>, NoVal, NoVal, NoCustomer)
        EXCEPT !.reference = ref, !.status = st]

OzowReferences ==
    { <<>>, <<"LG", "paid", "family", "u1">>, <<"LG", "gold", "u1">>,
      <<"XX", "gold", "u1">> }

OzowBodies ==
    { OzowBody(ref, st) : ref \in OzowReferences,
                          st \in {NoVal, "complete", "cancelled", "pending"} }
        \cup {InvalidJson}

OzowRequests == Posts(OzowBodies) \cup {GetRequest}

----------------------------------------------------------------------------
(* Responses *)

\* what checkout-initiate sends to transaction/initialize
NoMeta == [plan |-> <<>>, userId |-> NoVal, profile_limit |-> 0]

\* the outcome of one invocation: the response (status, class of the error
\* text), the update issued, whether the webhook went on to process the
\* event, the external calls made in order and the provider payload
Returned(s, u) ==
    [status |-> s, threw |-> FALSE, upd |-> u, processed |-> FALSE,
     calls |-> <<>>, error |-> <<>>, meta |-> NoMeta]

\* an exception that leaves exports.handler: no response object is returned
Threw == [Returned(0, NoUpdate) EXCEPT !.threw = TRUE]

\* the handler passed its signature check and went on to the event
Proceeded(out) == [out EXCEPT !.processed = TRUE]

NoResponse ==
    [status |-> 0, threw |-> FALSE, processed |-> FALSE,
     calls |-> <<>>, error |-> <<>>, meta |-> NoMeta]

Response(out) == [f \in DOMAIN NoResponse |-> out[f]]

\* a store update whose error is not looked at
WrittenUnchecked(u, onError) == Returned(200, u)

\* a store update followed by `if (error) return/throw` with status onError
Written(u, onError) == Returned(IF u.failed THEN onError ELSE 200, u)

NoTier == [tier |-> Null, profile_limit |-> 0]

DowngradePatch ==
    [active_tier |-> "free", subscription_id |-> Null,
     subscription_status |-> "cancelled", profile_limit |-> 1]

----------------------------------------------------------------------------
(* netlify/functions/payment-webhook.js: Paystack, HMAC-verified *)

\* the mapping with the limits of two plans exchanged
mapPaystackPlanToTierExchanged(planCode, e) ==
    CASE planCode = e.PAYSTACK_PLAN_SINGLE_CODE -> [tier |-> "paid_single", profile_limit |-> 1]
      [] planCode = e.PAYSTACK_PLAN_FAMILY_CODE -> [tier |-> "paid_family", profile_limit |-> 4]
      [] planCode = e.PAYSTACK_PLAN_ULTRA_CODE -> [tier |-> "paid_ultra", profile_limit |-> 2]
      [] OTHER -> NoTier

mapPaystackPlanToTier(planCode, e) ==
    CASE planCode = e.PAYSTACK_PLAN_SINGLE_CODE -> [tier |-> "paid_single", profile_limit |-> 1]
      [] planCode = e.PAYSTACK_PLAN_FAMILY_CODE -> [tier |-> "paid_family", profile_limit |-> 2]
      [] planCode = e.PAYSTACK_PLAN_ULTRA_CODE -> [tier |-> "paid_ultra", profile_limit |-> 4]
      [] OTHER -> NoTier

\* the hash taken over the parsed and re-serialized payload
SignatureMatchesParsed(r, e) ==
    r.sig.present /\ r.sig.hex = Hmac(e.PAYSTACK_SECRET_KEY, Reserialize(r.body))

SignatureMatches(r, e) ==
    r.sig.present /\ r.sig.hex = Hmac(e.PAYSTACK_SECRET_KEY, r.body)

HmacSuccess(d, e, ok) ==
    LET userId == d.metaUid
        profileLimit == d.limit
        planCode == d.plan
        subscriptionId == d.sub
        tierInfo == mapPaystackPlanToTier(planCode, e)
    IN  IF userId = NoVal \/ profileLimit = 0 \/ planCode = <<>>
        THEN Returned(400, NoUpdate)
        ELSE IF tierInfo = NoTier
        THEN Returned(400, NoUpdate)
        ELSE Written(Update(userId,
                            [active_tier |-> tierInfo.tier,
                             subscription_id |-> subscriptionId,
                             subscription_status |-> "active",
                             profile_limit |-> profileLimit], ok), 500)

HmacCancel(d, ok) ==
    IF d.metaUid = NoVal /\ d.customer = NoCustomer
    THEN Threw
    ELSE LET userId == IF d.metaUid # NoVal THEN d.metaUid ELSE d.customer
         IN  IF userId = NoVal
             THEN Returned(400, NoUpdate)
             ELSE Written(Update(userId, DowngradePatch, ok), 500)

\* the handler with the test of the cancellation event type left out
WebhookHmacAnyCancels(r, e, ok) ==
    IF r.method # "POST" THEN Returned(405, NoUpdate)
    ELSE IF e.PAYSTACK_SECRET_KEY = NoVal THEN Threw
    ELSE IF ~SignatureMatches(r, e) THEN Returned(200, NoUpdate)
    ELSE Proceeded(
        IF ~r.body.valid THEN Returned(400, NoUpdate)
        ELSE IF ~e.SUPABASE THEN Threw
        ELSE IF r.body.event \in {"charge.success", "subscription.create"}
        THEN IF ~r.body.hasData THEN Threw ELSE HmacSuccess(r.body, e, ok)
        ELSE IF ~r.body.hasData THEN Threw ELSE HmacCancel(r.body, ok))

WebhookHmac(r, e, ok) ==
    IF r.method # "POST" THEN Returned(405, NoUpdate)
    ELSE IF e.PAYSTACK_SECRET_KEY = NoVal THEN Threw
    ELSE IF ~SignatureMatches(r, e) THEN Returned(200, NoUpdate)
    ELSE Proceeded(
        IF ~r.body.valid THEN Returned(400, NoUpdate)
        ELSE IF ~e.SUPABASE THEN Threw
        ELSE IF r.body.event \in {"charge.success", "subscription.create"}
        THEN IF ~r.body.hasData THEN Threw ELSE HmacSuccess(r.body, e, ok)
        ELSE IF r.body.event \in {"subscription.disable", "subscription.expire"}
        THEN IF ~r.body.hasData THEN Threw ELSE HmacCancel(r.body, ok)
        ELSE Returned(200, NoUpdate))

----------------------------------------------------------------------------
(* unnamed/part_000: Paystack, no signature check *)

mapPaystackPlanToTierTrim(planCode, e) ==
    LET cleanCode == IF planCode # <<>> THEN Trim(planCode) ELSE <<>>
    IN  IF e.PAYSTACK_PLAN_SINGLE_CODE # <<>> /\ cleanCode = Trim(e.PAYSTACK_PLAN_SINGLE_CODE)
        THEN [tier |-> "paid_single", profile_limit |-> 1]
        ELSE IF e.PAYSTACK_PLAN_FAMILY_CODE # <<>> /\ cleanCode = Trim(e.PAYSTACK_PLAN_FAMILY_CODE)
        THEN [tier |-> "paid_family", profile_limit |-> 2]
        ELSE IF e.PAYSTACK_PLAN_ULTRA_CODE # <<>> /\ cleanCode = Trim(e.PAYSTACK_PLAN_ULTRA_CODE)
        THEN [tier |-> "paid_ultra", profile_limit |-> 4]
        ELSE NoTier

LimitFallback(profileLimit) ==
    CASE profileLimit = 1 -> [tier |-> "paid_single", profile_limit |-> 1]
      [] profileLimit = 2 -> [tier |-> "paid_family", profile_limit |-> 2]
      [] profileLimit = 4 -> [tier |-> "paid_ultra", profile_limit |-> 4]
      [] OTHER -> NoTier

PlainSuccess(d, e, ok) ==
    LET userId == IF d.metaUid # NoVal THEN d.metaUid ELSE d.cfUid
        profileLimit == d.limit
        planCode == d.plan
        subscriptionId == IF d.sub # NoVal THEN d.sub ELSE d.id
        mapped == mapPaystackPlanToTierTrim(planCode, e)
        tierInfo == IF mapped = NoTier /\ profileLimit # 0
                    THEN LimitFallback(profileLimit) ELSE mapped
    IN  IF userId = NoVal
        THEN Returned(200, NoUpdate)
        ELSE IF tierInfo = NoTier
        THEN Returned(200, NoUpdate)
        ELSE Written(Update(userId,
                            [active_tier |-> tierInfo.tier,
                             subscription_id |-> subscriptionId,
                             subscription_status |-> "active",
                             profile_limit |-> tierInfo.profile_limit], ok), 500)

PlainCancel(d, ok) ==
    LET userId == d.metaUid
    IN  IF userId # NoVal
        THEN Written(Update(userId,
                            [active_tier |-> "free",
                             subscription_status |-> "cancelled",
                             profile_limit |-> 1], ok), 200)
        ELSE Returned(200, NoUpdate)

WebhookPlain(r, e, ok) ==
    IF r.method # "POST" THEN Returned(405, NoUpdate)
    ELSE Proceeded(
        IF ~r.body.valid THEN Returned(500, NoUpdate)
        ELSE IF ~e.SUPABASE THEN Returned(500, NoUpdate)
        ELSE IF r.body.event \in {"charge.success", "subscription.create"}
        THEN IF ~r.body.hasData THEN Returned(500, NoUpdate) ELSE PlainSuccess(r.body, e, ok)
        ELSE IF r.body.event \in {"subscription.disable", "subscription.not_renew"}
        THEN IF ~r.body.hasData THEN Returned(500, NoUpdate) ELSE PlainCancel(r.body, ok)
        ELSE Returned(200, NoUpdate))

----------------------------------------------------------------------------
(* unnamed/part_001: Ozow, hash check bypassed *)

OzowUpdate(payload, planId, userId, ok) ==
    IF payload.status = "complete"
    THEN Written(Update(userId,
                        [active_tier |-> planId,
                         subscription_status |-> "active"], ok), 400)
    ELSE IF payload.status = "cancelled"
    THEN Written(Update(userId,
                        [active_tier |-> "free",
                         subscription_status |-> "cancelled",
                         ozow_subscription_id |-> Null], ok), 400)
    ELSE Returned(200, NoUpdate)

WebhookOzow(r, e, ok) ==
    IF r.method # "POST" THEN Returned(405, NoUpdate)
    ELSE IF ~r.body.valid THEN Returned(400, NoUpdate)
    ELSE LET payload == r.body
             ozowHash == r.sig
             myHash == ozowHash
             parts == payload.reference
         IN  IF ~ozowHash.present THEN Returned(400, NoUpdate)
             ELSE IF myHash # ozowHash THEN Returned(200, NoUpdate)
             ELSE Proceeded(
                 IF parts = <<>> THEN Returned(400, NoUpdate)
                 ELSE IF Len(parts) # 3 \/ parts[1] # "LG" THEN Returned(400, NoUpdate)
                 ELSE IF ~e.SUPABASE THEN Returned(400, NoUpdate)
                 ELSE OzowUpdate(payload, parts[2], parts[3], ok))

----------------------------------------------------------------------------
(* netlify/functions/cancel-subscription.js *)

Includes(msg, part) == \E i \in 1..Len(msg) : msg[i] = part

\* a response with an error text, after the external calls made so far
Failed(s, msg, calls) == [Returned(s, NoUpdate) EXCEPT !.error = msg, !.calls = calls]

\* supabase.auth.getUser(token): the user of a valid token
Identity(token) ==
    CASE token = "tok_u1" -> "u1"
      [] token = "tok_u9" -> "u9"
      [] OTHER -> NoVal

\* "body" is netlify/functions/cancel-subscription.js, "jwt" is
\* unnamed/part_008, "ctx" is unnamed/part_007
CancelRevisions == {"body", "jwt", "ctx"}

CancelRequests ==
    { [handler |-> "body", method |-> "POST", token |-> NoVal, userId |-> u,
       fetchOk |-> f, providerOk |-> p] :
        u \in {NoVal, "u1", "u2", "u9"}, f \in BOOLEAN, p \in BOOLEAN }
      \cup { [handler |-> "body", method |-> "GET", token |-> NoVal, userId |-> NoVal,
              fetchOk |-> TRUE, providerOk |-> TRUE] }
      \cup { [handler |-> h, method |-> "POST", token |-> t, userId |-> u,
              fetchOk |-> f, providerOk |-> p] :
                h \in {"jwt", "ctx"}, t \in {NoVal, "tok_u1", "tok_u9", "tok_bad"},
                u \in {NoVal, "u2"}, f \in BOOLEAN, p \in BOOLEAN }

\* select('subscription_id').eq('id', userId).single() gave no usable row
NoSubscription(c, userId, acc) ==
    ~c.fetchOk \/ userId \notin DOMAIN acc \/ acc[userId].subscription_id = Null

\* the downgrade issued first and the provider asked afterwards
DowngradeThenDisable(calls, userId, providerOk, ok) ==
    [Returned(IF providerOk THEN 200 ELSE 500, Update(userId, DowngradePatch, ok))
        EXCEPT !.calls = calls \o <<"update", "disable">>]

\* the provider's disable call and the downgrade that follows it; calls are
\* the external calls made before
DisableAndDowngrade(calls, userId, providerOk, ok) ==
    IF ~providerOk
    THEN Failed(500, <<"Failed to cancel subscription.">>, calls \o <<"disable">>)
    ELSE [Returned(200, Update(userId, DowngradePatch, ok))
             EXCEPT !.calls = calls \o <<"disable", "update">>]

\* the handler without its test of the fetched subscription id
CancelSubscriptionUnchecked(c, e, acc, ok) ==
    IF c.method # "POST" THEN Returned(405, NoUpdate)
    ELSE IF e.PAYSTACK_SECRET_KEY = NoVal \/ ~e.SUPABASE THEN Returned(500, NoUpdate)
    ELSE IF c.userId = NoVal THEN Returned(400, NoUpdate)
    ELSE DisableAndDowngrade(<<"read">>, c.userId, c.providerOk, ok)

CancelSubscription(c, e, acc, ok) ==
    IF c.method # "POST" THEN Returned(405, NoUpdate)
    ELSE IF e.PAYSTACK_SECRET_KEY = NoVal \/ ~e.SUPABASE THEN Returned(500, NoUpdate)
    ELSE IF c.userId = NoVal THEN Returned(400, NoUpdate)
    ELSE IF NoSubscription(c, c.userId, acc)
    THEN Failed(400, <<"No active subscription found to cancel.">>, <<"read">>)
    ELSE DisableAndDowngrade(<<"read">>, c.userId, c.providerOk, ok)

\* unnamed/part_008: the caller is the user of the bearer token
CancelSubscriptionJwt(c, e, acc, ok) ==
    IF ~e.SUPABASE THEN Failed(401, <<"You must be logged in.">>, <<>>)
    ELSE IF c.token = NoVal THEN Failed(401, <<"You must be logged in.">>, <<>>)
    ELSE IF Identity(c.token) = NoVal
    THEN Failed(401, <<"You must be logged in.">>, <<"identity">>)
    ELSE LET userId == Identity(c.token)
         IN  IF NoSubscription(c, userId, acc)
             THEN Failed(400, <<"No active subscription found to cancel.">>,
                         <<"identity", "read">>)
             ELSE DisableAndDowngrade(<<"identity", "read">>, userId,
                                      c.providerOk /\ e.PAYSTACK_SECRET_KEY # NoVal, ok)

\* the handler going on as if the provider had accepted the disable call
CancelSubscriptionCtxIgnoring(c, e, acc, ok) ==
    IF Identity(c.token) = NoVal THEN Failed(401, <<"You must be logged in.">>, <<>>)
    ELSE LET userId == Identity(c.token)
         IN  IF ~e.SUPABASE THEN Failed(500, <<"supabaseUrl is required.">>, <<>>)
             ELSE IF NoSubscription(c, userId, acc)
             THEN Failed(400, <<"No active subscription found to cancel.">>, <<"read">>)
             ELSE DisableAndDowngrade(<<"read">>, userId, TRUE, ok)

\* unnamed/part_007: the caller is context.clientContext.user, which the
\* platform fills in from a valid bearer token
CancelSubscriptionCtx(c, e, acc, ok) ==
    IF Identity(c.token) = NoVal THEN Failed(401, <<"You must be logged in.">>, <<>>)
    ELSE LET userId == Identity(c.token)
         IN  IF ~e.SUPABASE THEN Failed(500, <<"supabaseUrl is required.">>, <<>>)
             ELSE IF NoSubscription(c, userId, acc)
             THEN Failed(400, <<"No active subscription found to cancel.">>, <<"read">>)
             ELSE DisableAndDowngrade(<<"read">>, userId,
                                      c.providerOk /\ e.PAYSTACK_SECRET_KEY # NoVal, ok)

CancelHandler(c, e, acc, ok) ==
    CASE c.handler = "body" -> CancelSubscription(c, e, acc, ok)
      [] c.handler = "jwt" -> CancelSubscriptionJwt(c, e, acc, ok)
      [] c.handler = "ctx" -> CancelSubscriptionCtx(c, e, acc, ok)

----------------------------------------------------------------------------
(* Checkout initiation: netlify/functions/create-subscription.js ("body"),
   unnamed/part_006 ("jwt") and the second handler of unnamed/part_005
   ("masked"). An error text is the sequence of its parts. *)

NoPlan == [code |-> <<>>, profile_limit |-> 0]

\* switch (plan): the provider plan code and the profile limit of a plan name
PlanSwitch(plan, e) ==
    CASE plan = "paid_single" -> [code |-> e.PAYSTACK_PLAN_SINGLE_CODE, profile_limit |-> 1]
      [] plan = "paid_family" -> [code |-> e.PAYSTACK_PLAN_FAMILY_CODE, profile_limit |-> 2]
      [] plan = "paid_ultra" -> [code |-> e.PAYSTACK_PLAN_ULTRA_CODE, profile_limit |-> 4]
      [] OTHER -> NoPlan

CheckoutRevisions == {"body", "jwt", "masked"}

GetCheckout ==
    [handler |-> "body", method |-> "GET", token |-> NoVal, userId |-> NoVal,
     email |-> NoVal, plan |-> NoVal, providerOk |-> TRUE]

CheckoutRequests ==
    { [handler |-> h, method |-> "POST", token |-> t, userId |-> u, email |-> m,
       plan |-> pl, providerOk |-> p] :
        h \in CheckoutRevisions, t \in {NoVal, "tok_u1", "tok_bad"},
        u \in {NoVal, "u1", "u2"}, m \in {NoVal, "a@x"},
        pl \in {NoVal, "paid_single", "paid_family", "paid_ultra", "gold"},
        p \in BOOLEAN }
      \cup { [handler |-> h, method |-> "GET", token |-> NoVal, userId |-> NoVal,
              email |-> NoVal, plan |-> NoVal, providerOk |-> TRUE] :
                h \in CheckoutRevisions }

\* fetch('https://api.paystack.co/transaction/initialize') and what follows
Initialize(c, meta, calls) ==
    IF c.providerOk
    THEN [Returned(200, NoUpdate) EXCEPT !.calls = Append(calls, "provider"), !.meta = meta]
    ELSE [Failed(500, <<"Paystack initialization failed.">>, Append(calls, "provider"))
             EXCEPT !.meta = meta]

CheckoutBody(c, e) ==
    IF c.method # "POST" THEN Failed(405, <<"Method Not Allowed">>, <<>>)
    ELSE IF c.userId = NoVal \/ c.email = NoVal \/ c.plan = NoVal
    THEN Failed(400, <<"Missing required fields: userId, email, or plan.">>, <<>>)
    ELSE LET sel == PlanSwitch(c.plan, e)
         IN  IF sel = NoPlan
             THEN Failed(500, <<"Invalid plan selected:", c.plan>>, <<>>)
             ELSE IF sel.code = <<>>
             THEN Failed(500, <<"Configuration Missing: No Paystack code found for plan",
                                c.plan, "in environment variables.">>, <<>>)
             ELSE Initialize(c, [plan |-> Trim(sel.code), userId |-> c.userId,
                                 profile_limit |-> sel.profile_limit], <<>>)

CheckoutJwt(c, e) ==
    IF ~e.SUPABASE \/ e.PAYSTACK_SECRET_KEY = NoVal
    THEN Failed(500, <<"Server configuration error.">>, <<>>)
    ELSE IF c.method # "POST" THEN Failed(405, <<"Method Not Allowed">>, <<>>)
    ELSE IF c.token = NoVal THEN Failed(401, <<"You must be logged in.">>, <<>>)
    ELSE IF Identity(c.token) = NoVal
    THEN Failed(401, <<"Invalid or expired session. Please log in again.">>, <<"identity">>)
    ELSE LET sel == PlanSwitch(c.plan, e)
         IN  IF sel = NoPlan
             THEN Failed(500, <<"Invalid plan specified.">>, <<"identity">>)
             ELSE IF sel.code = <<>>
             THEN Failed(500, <<"CRITICAL", "Plan configuration error for plan", c.plan,
                                "Please check your Netlify environment variables",
                                "PAYSTACK_PLAN_SINGLE_CODE">>, <<"identity">>)
             ELSE Initialize(c, [plan |-> sel.code, userId |-> Identity(c.token),
                                 profile_limit |-> sel.profile_limit], <<"identity">>)

\* catch (error): a thrown message that includes "CRITICAL" is replaced
MaskCritical(out) ==
    IF out.status = 500 /\ Includes(out.error, "CRITICAL")
    THEN [out EXCEPT !.error = <<"Failed to initialize Paystack checkout.",
                                 "Please check server configuration.">>]
    ELSE out

CheckoutMasked(c, e) ==
    IF ~e.SUPABASE \/ e.PAYSTACK_SECRET_KEY = NoVal
    THEN MaskCritical(Failed(500, <<"CRITICAL", "One or more required secrets are missing">>, <<>>))
    ELSE IF c.method # "POST" THEN Failed(405, <<"Method Not Allowed">>, <<>>)
    ELSE IF c.token = NoVal THEN Failed(401, <<"You must be logged in.">>, <<>>)
    ELSE IF Identity(c.token) = NoVal
    THEN Failed(401, <<"You must be logged in.">>, <<"identity">>)
    ELSE LET sel == PlanSwitch(c.plan, e)
         IN  MaskCritical(
             IF sel = NoPlan
             THEN Failed(500, <<"Invalid plan specified.">>, <<"identity">>)
             ELSE IF sel.code = <<>>
             THEN Failed(500, <<"CRITICAL", "Paystack Plan code for", c.plan,
                                "is not configured.">>, <<"identity">>)
             ELSE Initialize(c, [plan |-> sel.code, userId |-> Identity(c.token),
                                 profile_limit |-> sel.profile_limit], <<"identity">>))

CreateSubscription(c, e) ==
    CASE c.handler = "body" -> CheckoutBody(c, e)
      [] c.handler = "jwt" -> CheckoutJwt(c, e)
      [] c.handler = "masked" -> CheckoutMasked(c, e)

----------------------------------------------------------------------------
(* The deployed system: one webhook revision, one environment, the table *)

Revisions == {"hmac", "plain", "ozow"}

Requests(rv) == IF rv = "ozow" THEN OzowRequests ELSE PaystackRequests

Webhook(rv, r, e, ok) ==
    CASE rv = "hmac" -> WebhookHmac(r, e, ok)
      [] rv = "plain" -> WebhookPlain(r, e, ok)
      [] rv = "ozow" -> WebhookOzow(r, e, ok)

\* the function instances that handle one event at the same time
Procs == 1..MaxConcurrent

Idle == [p \in Procs |-> [pc |-> "idle", status |-> 0, wrote |-> FALSE]]

\* no cancel call has been answered 200
NoCancel == [user |-> NoVal, sub |-> Null]

\* no plan resolution has been asked for
NoResolution ==
    [kind |-> "none", code |-> <<>>, call |-> GetCheckout, sent |-> FALSE,
     tier |-> Null, profile_limit |-> 0]

Init ==
    /\ rev \in Revisions
    /\ env \in Envs
    /\ accounts \in [Users -> {FreeRow, PaidRow}]
    /\ op = "none"
    /\ req = GetRequest
    /\ before = accounts
    /\ resp = NoResponse
    /\ upd = NoUpdate
    /\ deliveries = 0
    /\ prevStatus = 0
    /\ procs = Idle
    /\ resolved = NoResolution
    /\ cancelled = NoCancel

\* one invocation of the handler: its response and its effect on the table
Invoke(kind, r, out, n, prev) ==
    /\ op' = kind
    /\ req' = r
    /\ before' = accounts
    /\ accounts' = ApplyUpdate(accounts, out.upd)
    /\ resp' = Response(out)
    /\ upd' = out.upd
    /\ deliveries' = n
    /\ prevStatus' = prev
    /\ UNCHANGED <<rev, env, procs, resolved, cancelled>>

\* the provider delivers an event
Deliver(r, ok) ==
    /\ op = "none"
    /\ Invoke("webhook", r, Webhook(rev, r, env, ok), 1, 0)

\* the provider delivers the same event again
Redeliver(ok) ==
    /\ op = "webhook"
    /\ deliveries < MaxDeliveries
    /\ Invoke("webhook", req, Webhook(rev, req, env, ok), deliveries + 1, resp.status)

\* the frontend calls the cancel endpoint
Cancel(c, ok) ==
    /\ op = "none"
    /\ Invoke("cancel", c, CancelHandler(c, env, accounts, ok), 0, 0)

\* the frontend asks for a checkout page
Checkout(c) ==
    /\ op = "none"
    /\ Invoke("checkout", c, CreateSubscription(c, env), 0, 0)

\* the invocation is over: the functions keep nothing but the table
Settle ==
    /\ op # "none"
    /\ op' = "none"
    /\ req' = GetRequest
    /\ before' = accounts
    /\ resp' = NoResponse
    /\ upd' = NoUpdate
    /\ deliveries' = 0
    /\ prevStatus' = 0
    /\ UNCHANGED <<rev, env, accounts, procs, resolved, cancelled>>

Next ==
    \/ \E r \in Requests(rev), ok \in BOOLEAN : Deliver(r, ok)
    \/ \E ok \in BOOLEAN : Redeliver(ok)
    \/ \E c \in CancelRequests, ok \in BOOLEAN : Cancel(c, ok)
    \/ \E c \in CheckoutRequests : Checkout(c)
    \/ Settle

Spec == Init /\ [][Next]_vars

----------------------------------------------------------------------------
(* Concurrent duplicate deliveries: every instance runs the handler up to
   its `await supabase...update(...).eq('id', userId)`, the store applies
   each update as one step, and the instance then returns its response *)

\* the events the provider itself sends: posted, signed with its key
ProviderSigned(requests) ==
    { r \in requests :
        /\ r.method = "POST"
        /\ r.sig = [present |-> TRUE, hex |-> Hmac(FullEnv.PAYSTACK_SECRET_KEY, r.body)] }

ProviderPaystack == ProviderSigned(PaystackRequests)

ProviderOzow == ProviderSigned(OzowRequests)

ProviderRequests(rv) == IF rv = "ozow" THEN ProviderOzow ELSE ProviderPaystack

\* the provider sends the same event to every instance at once
Arrive(r) ==
    /\ op = "none"
    /\ op' = "webhook"
    /\ req' = r
    /\ before' = accounts
    /\ procs' = [p \in Procs |-> [pc |-> "start", status |-> 0, wrote |-> FALSE]]
    /\ UNCHANGED <<rev, env, accounts, resp, upd, deliveries, prevStatus, resolved, cancelled>>

\* instance p runs the handler up to the store update (or to its return)
Compute(p) ==
    /\ procs[p].pc = "start"
    /\ LET out == Webhook(rev, req, env, TRUE)
       IN  procs' = [procs EXCEPT ![p] =
                        [pc |-> IF out.upd.issued THEN "write" ELSE "done",
                         status |-> IF out.upd.issued THEN 0 ELSE out.status,
                         wrote |-> FALSE]]
    /\ UNCHANGED <<rev, env, accounts, op, req, before, resp, upd, deliveries, prevStatus, resolved, cancelled>>

\* the store runs the update of instance p, which then returns
Write(p, ok) ==
    /\ procs[p].pc = "write"
    /\ LET out == Webhook(rev, req, env, ok)
       IN  /\ accounts' = ApplyUpdate(accounts, out.upd)
           /\ procs' = [procs EXCEPT ![p] =
                           [pc |-> "done", status |-> out.status, wrote |-> ok]]
    /\ UNCHANGED <<rev, env, op, req, before, resp, upd, deliveries, prevStatus, resolved, cancelled>>

\* every instance has returned
Finish ==
    /\ \A p \in Procs : procs[p].pc = "done"
    /\ op' = "none"
    /\ req' = GetRequest
    /\ before' = accounts
    /\ procs' = Idle
    /\ UNCHANGED <<rev, env, accounts, resp, upd, deliveries, prevStatus, resolved, cancelled>>

NextConcurrent ==
    \/ \E r \in ProviderRequests(rev) : Arrive(r)
    \/ \E p \in Procs : Compute(p)
    \/ \E p \in Procs, ok \in BOOLEAN : Write(p, ok)
    \/ Finish

SpecConcurrent == Init /\ [][NextConcurrent]_vars

----------------------------------------------------------------------------
(* Redelivery until acknowledged: the provider sends an event again as long
   as the answer is not 200, and the store accepts a write in the end *)

\* the provider sends the unacknowledged event again
Retry(ok) ==
    /\ op = "webhook"
    /\ resp.threw \/ resp.status # 200
    /\ Invoke("webhook", req, Webhook(rev, req, env, ok),
              IF deliveries < MaxDeliveries THEN deliveries + 1 ELSE deliveries,
              resp.status)

\* the provider got its 200 and is done with the event
Acknowledge ==
    /\ op = "webhook"
    /\ ~resp.threw /\ resp.status = 200
    /\ op' = "acknowledged"
    /\ UNCHANGED <<rev, env, accounts, req, before, resp, upd, deliveries,
                   prevStatus, procs, resolved, cancelled>>

\* the successful-payment events the provider sends
PaymentRequests == { r \in ProviderPaystack : r.body.event \in SuccessEvents }

InitRetry == Init /\ rev \in {"hmac", "plain"}

NextRetry ==
    \/ \E r \in PaymentRequests, ok \in BOOLEAN : Deliver(r, ok)
    \/ \E ok \in BOOLEAN : Retry(ok)
    \/ Acknowledge

SpecRetry == InitRetry /\ [][NextRetry]_vars /\ WF_vars(Retry(TRUE))

----------------------------------------------------------------------------
(* An account over time: payment events and cancel calls, with the user and
   the subscription code of the last cancel call that was answered 200 *)

\* the user a cancel handler acts for
Caller(c) == IF c.handler = "body" THEN c.userId ELSE Identity(c.token)

\* the frontend calls the cancel endpoint; a 200 is remembered
CancelRecorded(c, ok) ==
    /\ op = "none"
    /\ LET out == CancelHandler(c, env, accounts, ok)
       IN  /\ op' = "cancel"
           /\ req' = c
           /\ before' = accounts
           /\ accounts' = ApplyUpdate(accounts, out.upd)
           /\ resp' = Response(out)
           /\ upd' = out.upd
           /\ cancelled' = IF out.status = 200
                           THEN [user |-> Caller(c),
                                 sub |-> accounts[Caller(c)].subscription_id]
                           ELSE cancelled
    /\ UNCHANGED <<rev, env, deliveries, prevStatus, procs, resolved>>

InitLifecycle == Init /\ rev \in {"hmac", "plain"} /\ env = FullEnv

NextLifecycle ==
    \/ \E r \in PaymentRequests, ok \in BOOLEAN : Deliver(r, ok)
    \/ \E c \in CancelRequests, ok \in BOOLEAN : CancelRecorded(c, ok)
    \/ Settle

SpecLifecycle == InitLifecycle /\ [][NextLifecycle]_vars

----------------------------------------------------------------------------
(* Plan resolution on its own: mapPaystackPlanToTier of the two Paystack
   webhook revisions applied to a plan code, and the plan switch of the
   checkout handlers applied to a plan name *)

\* environments whose plan codes are set, one of them with pasted blanks
MappingEnvs ==
    { FullEnv,
      [FullEnv EXCEPT !.PAYSTACK_PLAN_FAMILY_CODE = <<" ", "F">>],
      [FullEnv EXCEPT !.PAYSTACK_PLAN_FAMILY_CODE = <<>>] }

\* plan codes as an event may carry them
MappingCodes ==
    { SingleCode, FamilyCode, UltraCode, UnknownCode,
      <<" ", "F">>, <<"F", " ">>, <<" ", "F", " ">>, <<"F", "X">>, <<" ">>, <<" ", "U">> }

PlanMapping(rv, planCode, e) ==
    IF rv = "plain" THEN mapPaystackPlanToTierTrim(planCode, e)
    ELSE mapPaystackPlanToTier(planCode, e)

InitMapping ==
    /\ rev \in {"hmac", "plain"}
    /\ env \in MappingEnvs
    /\ accounts = [u \in Users |-> FreeRow]
    /\ op = "none"
    /\ req = GetRequest
    /\ before = accounts
    /\ resp = NoResponse
    /\ upd = NoUpdate
    /\ deliveries = 0
    /\ prevStatus = 0
    /\ procs = Idle
    /\ resolved = NoResolution
    /\ cancelled = NoCancel

\* the webhook maps the plan code of an event
ResolveCode(planCode) ==
    /\ resolved = NoResolution
    /\ LET tierInfo == PlanMapping(rev, planCode, env)
       IN  resolved' = [NoResolution EXCEPT !.kind = "code", !.code = planCode,
                           !.tier = tierInfo.tier,
                           !.profile_limit = tierInfo.profile_limit]
    /\ UNCHANGED <<rev, env, accounts, op, req, before, resp, upd, deliveries,
                   prevStatus, procs, cancelled>>

\* a checkout handler resolves the plan name of a request
ResolvePlan(c) ==
    /\ resolved = NoResolution
    /\ LET out == CreateSubscription(c, env)
       IN  resolved' = [NoResolution EXCEPT !.kind = "plan", !.call = c,
                           !.code = out.meta.plan,
                           !.sent = Includes(out.calls, "provider"),
                           !.profile_limit = out.meta.profile_limit]
    /\ UNCHANGED <<rev, env, accounts, op, req, before, resp, upd, deliveries,
                   prevStatus, procs, cancelled>>

\* the verified charge.success event in which the provider echoes the plan
\* code and the metadata of a checkout call
EchoedEvent(meta, e) ==
    LET b == Body("charge.success", meta.userId, NoVal, meta.profile_limit,
                  meta.plan, "SUB_1", "TRX_1", "CUS_1")
    IN  [method |-> "POST",
         sig |-> [present |-> TRUE, hex |-> Hmac(e.PAYSTACK_SECRET_KEY, b)],
         body |-> b]

\* a checkout call, the payment, and the webhook's handling of the event
RoundTrip(c) ==
    /\ resolved = NoResolution
    /\ LET out == CreateSubscription(c, env)
           paid == out.status = 200 /\ Includes(out.calls, "provider")
           hook == Webhook(rev, EchoedEvent(out.meta, env), env, TRUE)
           written == paid /\ hook.upd.issued
       IN  resolved' = [NoResolution EXCEPT !.kind = "trip", !.call = c,
                           !.code = out.meta.plan,
                           !.sent = paid,
                           !.tier = IF written THEN hook.upd.patch.active_tier ELSE Null,
                           !.profile_limit =
                               IF written THEN hook.upd.patch.profile_limit ELSE 0]
    /\ UNCHANGED <<rev, env, accounts, op, req, before, resp, upd, deliveries,
                   prevStatus, procs, cancelled>>

\* the functions keep nothing of a resolution
Forget ==
    /\ resolved # NoResolution
    /\ resolved' = NoResolution
    /\ UNCHANGED <<rev, env, accounts, op, req, before, resp, upd, deliveries,
                   prevStatus, procs, cancelled>>

NextMapping ==
    \/ \E planCode \in MappingCodes : ResolveCode(planCode)
    \/ \E c \in CheckoutRequests : ResolvePlan(c)
    \/ \E c \in CheckoutRequests : RoundTrip(c)
    \/ Forget

SpecMapping == InitMapping /\ [][NextMapping]_vars

----------------------------------------------------------------------------
(* Vocabulary of the properties *)

SharedSecret == IF rev = "ozow" THEN env.OZOW_PRIVATE_KEY ELSE env.PAYSTACK_SECRET_KEY

\* every secret and credential the functions read is set
Configured == env.PAYSTACK_SECRET_KEY # NoVal /\ env.OZOW_PRIVATE_KEY # NoVal /\ env.SUPABASE

\* the last invocation was a webhook POST
Posted == op = "webhook" /\ req.method = "POST"

\* its signature header is the HMAC of its body under the shared secret
Authentic ==
    /\ Posted
    /\ SharedSecret # NoVal
    /\ req.sig.present
    /\ req.sig.hex.key = SharedSecret
    /\ req.sig.hex.msg = req.body

Paystack == rev \in {"hmac", "plain"}

\* a verified, well-formed Paystack event
Event == Paystack /\ Configured /\ Authentic /\ req.body.valid /\ req.body.hasData

SuccessEvent == Event /\ req.body.event \in SuccessEvents

CancelEvents == {"subscription.disable", "subscription.expire"}

CancelEvent == Event /\ req.body.event \in CancelEvents

\* the static mapping of section 3: configured plan code -> tier
CodeTier(code) ==
    CASE code # <<>> /\ code = env.PAYSTACK_PLAN_SINGLE_CODE -> "paid_single"
      [] code # <<>> /\ code = env.PAYSTACK_PLAN_FAMILY_CODE -> "paid_family"
      [] code # <<>> /\ code = env.PAYSTACK_PLAN_ULTRA_CODE -> "paid_ultra"
      [] OTHER -> Null

HintTier(l) ==
    CASE l = 1 -> "paid_single" [] l = 2 -> "paid_family" [] l = 4 -> "paid_ultra"
      [] OTHER -> Null

OthersUnchanged(u) == \A o \in Users \ {u} : accounts[o] = before[o]

----------------------------------------------------------------------------
(* Properties *)

\* C1: a POST whose signature is not the HMAC of the body under the shared
\* secret is answered 200 and updates no account row, in every revision.
C1_MismatchIsIgnored ==
    (Posted /\ Configured /\ ~Authentic)
        => (~resp.threw /\ resp.status = 200 /\ ~upd.issued /\ accounts = before)

\* C2: every account's profile_limit is the table value of its active_tier,
\* whatever the event metadata carries.
C2_LimitMatchesTier ==
    \A u \in Users : accounts[u].profile_limit = TierLimit(accounts[u].active_tier)

\* C3 (as claimed, on events that carry a user id, a limit and a configured
\* plan code): the second delivery of an identical verified successful-payment
\* event leaves the table as the first left it, and both deliveries return 200.
C3_RedeliveryBoth200 ==
    (SuccessEvent /\ deliveries >= 2 /\ req.body.metaUid # NoVal
        /\ req.body.limit # 0 /\ CodeTier(req.body.plan) # Null)
        => (accounts = before /\ prevStatus = 200 /\ ~resp.threw /\ resp.status = 200)

\* C3 (amended): when the first delivery of a verified successful-payment
\* event returned 200, a second delivery of the identical event leaves the
\* table as the first left it, and it returns 200 unless its own store write
\* fails, in which case it returns 500.
C3_RedeliveryIdempotent ==
    (SuccessEvent /\ deliveries >= 2 /\ prevStatus = 200)
        => /\ accounts = before
           /\ ~resp.threw
           /\ resp.status = IF upd.issued /\ upd.failed THEN 500 ELSE 200

W3_RedeliveredUpgrade ==
    /\ SuccessEvent /\ deliveries = 2 /\ prevStatus = 200
    /\ upd.issued /\ ~upd.failed /\ upd.key = "u1"
    /\ accounts["u1"].active_tier = "paid_ultra"
    /\ accounts["u1"].subscription_id = "SUB_1"

\* C4: a verified successful-payment event with user id u and a plan code
\* resolving to tier t, answered 200, leaves row u with active_tier t, the
\* event's subscription identifier and status active, and no other row changed.
C4_UpgradeApplied ==
    (SuccessEvent /\ req.body.metaUid # NoVal /\ CodeTier(req.body.plan) # Null
        /\ ~resp.threw /\ resp.status = 200)
        => /\ OthersUnchanged(req.body.metaUid)
           /\ req.body.metaUid \in Users =>
                /\ accounts[req.body.metaUid].active_tier = CodeTier(req.body.plan)
                /\ accounts[req.body.metaUid].subscription_id = req.body.sub
                /\ accounts[req.body.metaUid].subscription_status = "active"

\* C5: a verified cancellation or expiry event with user id u, answered 200,
\* leaves row u free, with limit 1, no subscription id and status cancelled.
C5_DowngradeApplied ==
    (CancelEvent /\ req.body.metaUid \in Users /\ ~resp.threw /\ resp.status = 200)
        => accounts[req.body.metaUid] = FreeRow

\* C6: a verified event of any type without a user id in its metadata is
\* answered 200 and changes no account row.
C6_NoUserIdIsSkipped ==
    (Event /\ req.body.metaUid = NoVal /\ req.body.cfUid = NoVal)
        => (~resp.threw /\ resp.status = 200 /\ accounts = before)

\* C7: the key of every account update is the supabase_user_id of the event
\* metadata, never the provider's customer code.
C7_KeyIsMetadataUserId ==
    (Paystack /\ op = "webhook" /\ upd.issued)
        => /\ upd.key # req.body.customer
           /\ upd.key = IF req.body.metaUid # NoVal THEN req.body.metaUid ELSE req.body.cfUid

\* C8: with an unmapped plan code the tier comes from the profile_limit hint;
\* when neither resolves the event is answered 200 without a change; an
\* unknown plan code never yields a non-200 status.
C8_UnknownPlanFallsBack ==
    (SuccessEvent /\ req.body.metaUid # NoVal /\ req.body.plan # <<>>
        /\ CodeTier(req.body.plan) = Null)
        => /\ ~resp.threw
           /\ IF HintTier(req.body.limit) # Null
              THEN /\ upd.issued
                   /\ upd.patch.active_tier = HintTier(req.body.limit)
                   /\ resp.status = IF upd.failed THEN 500 ELSE 200
              ELSE resp.status = 200 /\ ~upd.issued /\ accounts = before

\* C9: the webhook answers 200, 405 or 500 only: 405 exactly for a method
\* other than POST, and then nothing is written.
C9_StatusCodes ==
    (op = "webhook" /\ Configured /\ ~resp.threw)
        => /\ resp.status \in {200, 405, 500}
           /\ resp.status = 405 <=> req.method # "POST"
           /\ resp.status = 405 => ~upd.issued

\* C10: the webhook answers 500 exactly when an account write failed after
\* the event was verified.
C10_500IffWriteFailed ==
    (op = "webhook" /\ Configured /\ ~resp.threw)
        => (resp.status = 500 <=> (Authentic /\ upd.issued /\ upd.failed))

\* C11: a POST without signature header, or arriving when no shared secret
\* is configured, is answered 200 and updates no account row.
C11_UnverifiableIsIgnored ==
    (Posted /\ env.SUPABASE /\ (~req.sig.present \/ SharedSecret = NoVal))
        => (~resp.threw /\ resp.status = 200 /\ ~upd.issued /\ accounts = before)

\* C12: payment-webhook.js goes on to process the event exactly when the
\* signature header is the HMAC of the raw body under the secret; a digest of
\* the re-serialized payload is not accepted for a body that differs from it.
C12_AcceptsIffRawBodyHmac ==
    (Posted /\ rev = "hmac") => (resp.processed <=> Authentic)

W12_ReserializedDigestRejected ==
    /\ Posted /\ rev = "hmac" /\ Configured
    /\ req.body.raw = "spaced" /\ req.body.event = "charge.success"
    /\ req.sig.present
    /\ req.sig.hex = Hmac(env.PAYSTACK_SECRET_KEY, Reserialize(req.body))
    /\ ~resp.processed /\ resp.status = 200 /\ ~upd.issued

\* a verified Paystack event of a type no revision handles
OtherEvent ==
    /\ Paystack /\ Configured /\ Authentic /\ req.body.valid
    /\ req.body.event \notin
           SuccessEvents \cup CancelEvents \cup {"subscription.not_renew"}

\* C13: a verified event that is neither a payment/creation event nor a
\* cancellation/expiry event is answered 200 and changes no account row.
C13_OtherEventIgnored ==
    OtherEvent => (~resp.threw /\ resp.status = 200 /\ ~upd.issued /\ accounts = before)

W13_OtherEventAnswered ==
    /\ OtherEvent /\ req.body.hasData /\ req.body.metaUid = "u1"
    /\ before["u1"] = PaidRow /\ accounts = before /\ resp.status = 200

\* every concurrent instance has returned
AllDone == op = "webhook" /\ \A p \in Procs : procs[p].pc = "done"

\* the table after one delivery of the event, its store write succeeding or not
SingleDelivery(ok) == ApplyUpdate(before, Webhook(rev, req, env, ok).upd)

\* C14: when concurrent deliveries of one event have all returned, whatever
\* the order of their steps, the table is as after a single delivery of the
\* event (a delivery whose write succeeded, if any of the writes succeeded).
C14_ConcurrentConverges ==
    AllDone => accounts = SingleDelivery(\E p \in Procs : procs[p].wrote)

W14_BothInstancesWrote ==
    /\ AllDone /\ SuccessEvent /\ rev = "hmac"
    /\ \A p \in Procs : procs[p].wrote /\ procs[p].status = 200
    /\ accounts["u1"] # before["u1"]
    /\ accounts["u1"].active_tier = "paid_ultra"

\* C15: rows change only in a webhook or cancel invocation, a checkout call
\* changes none, and the set of rows is never changed.
C15_OnlyWebhookAndCancelWrite ==
    /\ DOMAIN accounts = Users
    /\ op = "checkout" => (accounts = before /\ ~upd.issued)
    /\ accounts # before => op \in {"webhook", "cancel"}

W15_CheckoutLeftRows ==
    /\ op = "checkout" /\ resp.status = 200 /\ Includes(resp.calls, "provider")
    /\ accounts = before /\ accounts["u1"] = PaidRow

\* the last invocation was a checkout POST
CheckoutPosted == op = "checkout" /\ req.method = "POST"

\* a checkout caller that is who the handler takes them for: the token is
\* valid where a token is read, the body fields are there where they are read
GoodCaller ==
    /\ CheckoutPosted /\ Configured
    /\ req.handler = "body" => (req.userId # NoVal /\ req.email # NoVal)
    /\ req.handler # "body" => Identity(req.token) # NoVal

\* C16: a checkout request with a plan name outside the three plans fails
\* with 400 before any call to the identity service or the provider.
C16_InvalidPlanIs400 ==
    (GoodCaller /\ req.plan \notin PaidTiers /\ req.plan # NoVal)
        => (resp.status = 400 /\ resp.calls = <<>>)

\* C18: the provider is called only after the identity service verified the
\* bearer token, the metadata user id is the authenticated caller's, and a
\* request without a valid token gets 401 and no provider call.
C18_ProviderOnlyAfterAuth ==
    (CheckoutPosted /\ Configured) =>
        /\ Includes(resp.calls, "provider") =>
               /\ resp.calls = <<"identity", "provider">>
               /\ Identity(req.token) # NoVal
               /\ resp.meta.userId = Identity(req.token)
        /\ Identity(req.token) = NoVal =>
               (resp.status = 401 /\ ~Includes(resp.calls, "provider"))

\* the names of the environment variables that hold the plan codes
PlanVariables ==
    {"PAYSTACK_PLAN_SINGLE_CODE", "PAYSTACK_PLAN_FAMILY_CODE", "PAYSTACK_PLAN_ULTRA_CODE"}

\* the error text names the plan or a configuration variable
Leaks(msg) == Includes(msg, req.plan) \/ \E v \in PlanVariables : Includes(msg, v)

\* C19: a valid plan without configured provider code fails with 500, no
\* provider call, and an error text that holds no configuration detail.
C19_ConfigErrorIsMasked ==
    (/\ GoodCaller /\ req.handler \in {"body", "masked"}
     /\ req.plan \in PaidTiers /\ PlanSwitch(req.plan, env).code = <<>>)
        => (resp.status = 500 /\ ~Includes(resp.calls, "provider") /\ ~Leaks(resp.error))

\* the user a cancel call is made for, once the handler has identified them
CancelUser == IF req.handler = "body" THEN req.userId ELSE Identity(req.token)

\* a cancel call that reached the look-up of the stored subscription id
CancelFor ==
    /\ op = "cancel" /\ req.method = "POST" /\ env.SUPABASE
    /\ req.handler = "body" => env.PAYSTACK_SECRET_KEY # NoVal
    /\ CancelUser # NoVal

\* C20: a cancel call for a user whose subscription_id is null, or whose row
\* cannot be read, gets 400, makes no disable call and changes no row.
C20_NoSubscriptionIs400 ==
    (CancelFor /\ NoSubscription(req, CancelUser, before))
        => (resp.status = 400 /\ ~Includes(resp.calls, "disable") /\ accounts = before)

W20_FreeUserCancels ==
    /\ CancelFor /\ req.fetchOk /\ CancelUser = "u1"
    /\ before["u1"].subscription_id = Null
    /\ resp.status = 400 /\ accounts = before

\* the plans whose configured code is the resolved code
PlansOfCode ==
    { t \in PaidTiers : PlanSwitch(t, env).code = resolved.code }

\* the plans whose configured code is the resolved code as the revision
\* compares them: unnamed/part_000 trims both sides first
PlansOfCodeCompared ==
    IF rev = "plain"
    THEN { t \in PaidTiers : /\ PlanSwitch(t, env).code # <<>>
                             /\ Trim(PlanSwitch(t, env).code) = Trim(resolved.code) }
    ELSE PlansOfCode

\* the metadata of a checkout call carries the profile limit of its plan
LimitOfPlanSent ==
    (resolved.kind = "plan" /\ resolved.sent) =>
        /\ resolved.call.plan \in PaidTiers
        /\ resolved.profile_limit = TierLimit(resolved.call.plan)

\* C17 as stated: the mapping returns the pair of a plan for that plan's
\* configured code and null for every other code.
C17_ExactTable ==
    /\ LimitOfPlanSent
    /\ resolved.kind = "code" =>
           IF PlansOfCode = {} THEN resolved.tier = Null
           ELSE \E t \in PlansOfCode :
                    resolved.tier = t /\ resolved.profile_limit = TierLimit(t)

\* C17: checkout sends the profile limit of the plan name; the mapping
\* returns the pair of the plan whose configured code it takes the code to
\* be (part_000 after trimming both) and null when there is no such plan.
C17_TableUpToTrim ==
    /\ LimitOfPlanSent
    /\ resolved.kind = "code" =>
           IF PlansOfCodeCompared = {} THEN resolved.tier = Null
           ELSE \E t \in PlansOfCodeCompared :
                    resolved.tier = t /\ resolved.profile_limit = TierLimit(t)

W17_PaddedCodeResolved ==
    /\ rev = "plain" /\ resolved.kind = "code"
    /\ resolved.code = <<" ", "F", " ">> /\ env = FullEnv
    /\ resolved.tier = "paid_family" /\ resolved.profile_limit = 2

\* call a was made, and call b was made later
Precedes(calls, a, b) ==
    \E i, j \in 1..Len(calls) : i < j /\ calls[i] = a /\ calls[j] = b

\* the last invocation was a cancel call that asked the provider to disable
\* the subscription
DisableAsked == op = "cancel" /\ Includes(resp.calls, "disable")

\* the provider reported success: it does so only to a call with the secret
ProviderAccepted == req.providerOk /\ env.PAYSTACK_SECRET_KEY # NoVal

\* C21: when the provider's disable call succeeded, the handler issued the
\* downgrade update for the caller's row before it responded, and an update
\* is never issued before the provider call.
C21_DowngradeFollowsDisable ==
    /\ (DisableAsked /\ ProviderAccepted) =>
           /\ upd.issued /\ upd.key = CancelUser /\ upd.patch = DowngradePatch
           /\ Precedes(resp.calls, "disable", "update")
    /\ (op = "cancel" /\ (upd.issued \/ Includes(resp.calls, "update"))) =>
           /\ Precedes(resp.calls, "disable", "update")
           /\ ~Precedes(resp.calls, "update", "disable")

W21_DisabledThenDowngraded ==
    /\ DisableAsked /\ ProviderAccepted /\ req.handler = "body" /\ CancelUser = "u2"
    /\ before["u2"] = PaidRow /\ accounts["u2"] = FreeRow /\ resp.status = 200

\* C22: when the provider rejects the disable call the handler answers 500
\* and every row stays as it was.
C22_RejectedDisableIs500 ==
    (DisableAsked /\ ~ProviderAccepted)
        => (resp.status = 500 /\ ~upd.issued /\ accounts = before)

W22_RejectedKeepsPaidRow ==
    /\ DisableAsked /\ ~req.providerOk /\ req.handler = "ctx" /\ CancelUser = "u1"
    /\ before["u1"] = PaidRow /\ accounts["u1"] = PaidRow /\ resp.status = 500

\* the handler touched the store or the provider
ActedOnAccount ==
    \/ upd.issued
    \/ \E a \in {"read", "disable", "update"} : Includes(resp.calls, a)

\* C23: the cancel endpoint reads, disables and downgrades only for the user
\* of the verified bearer token; without a valid token it answers 401 and
\* does none of these.
C23_CancelOnlyForTokenUser ==
    (op = "cancel" /\ req.method = "POST" /\ Configured) =>
        /\ ActedOnAccount => Identity(req.token) # NoVal
        /\ upd.issued => upd.key = Identity(req.token)
        /\ Identity(req.token) = NoVal => (resp.status = 401 /\ ~ActedOnAccount)

\* C28: when the cancel endpoint answers 200 the caller's row is the
\* downgraded row, whether or not the store reported an error.
C28_Cancel200MeansDowngraded ==
    (op = "cancel" /\ resp.status = 200)
        => (CancelUser \in Users /\ accounts[CancelUser] = FreeRow)

\* C25: a row is on a paid tier exactly when it has a subscription id, and a
\* row on a paid tier has status active.
C25_PaidIffSubscribed ==
    Paystack =>
        \A u \in Users :
            /\ accounts[u].active_tier \in PaidTiers <=> accounts[u].subscription_id # Null
            /\ accounts[u].active_tier \in PaidTiers =>
                   accounts[u].subscription_status = "active"

\* C26: every invocation of a Paystack webhook handler returns a response.
C26_WebhookAlwaysResponds ==
    (op = "webhook" /\ Paystack) => (~resp.threw /\ resp.status # 0)

\* C30: the subscription_id written on a successful-payment event is the
\* event's subscription code, and status active is never written without it.
C30_WritesSubscriptionCode ==
    (SuccessEvent /\ upd.issued) =>
        /\ req.body.sub # NoVal
        /\ "subscription_id" \in DOMAIN upd.patch
        /\ upd.patch.subscription_id = req.body.sub

\* C24: when the plan code and metadata that checkout sent come back in a
\* verified charge.success event, the webhook writes the plan as active_tier
\* and the limit checkout chose as profile_limit.
C24_RoundTrip ==
    (resolved.kind = "trip" /\ resolved.sent) =>
        /\ resolved.tier = resolved.call.plan
        /\ resolved.profile_limit = TierLimit(resolved.call.plan)

\* the user id a successful-payment event is handled for
EventUser ==
    IF rev = "plain" /\ req.body.metaUid = NoVal THEN req.body.cfUid ELSE req.body.metaUid

\* the tier the plan of the event resolves to
EventTier ==
    IF CodeTier(req.body.plan) # Null THEN CodeTier(req.body.plan)
    ELSE IF rev = "plain" THEN HintTier(req.body.limit)
    ELSE Null

\* a verified successful-payment event for a user with a row and with a
\* plan the revision resolves
Retriable ==
    /\ SuccessEvent /\ EventUser \in Users /\ EventTier # Null
    /\ rev = "hmac" => req.body.limit # 0

\* the row of the event's user holds the resolved tier with status active
TierStored ==
    /\ accounts[EventUser].active_tier = EventTier
    /\ accounts[EventUser].subscription_status = "active"

LateEvent ==
    /\ SuccessEvent /\ cancelled # NoCancel
    /\ EventUser = cancelled.user /\ req.body.sub = cancelled.sub
    /\ before[cancelled.user] = FreeRow

\* C29: a payment event of a cancelled subscription that is delivered after
\* the cancel call was answered 200 does not put the user back on a paid
\* tier and does not restore the subscription id.
C29_CancelledStaysCancelled ==
    LateEvent =>
        /\ accounts[cancelled.user].active_tier \notin PaidTiers
        /\ accounts[cancelled.user].subscription_id # cancelled.sub

====
